---------------------------- MODULE Spec2Model ----------------------------
(***************************************************************************)
(* Model of the two sprite-forge command line tools:                       *)
(*   tools/prompt_tester.py     generate_image, save_image,                *)
(*                              get_multiline_input, run_interactive       *)
(*   tools/verify_dimensions.py generate_image, run_test, main             *)
(*                                                                         *)
(* Python strings that the code slices, splits or decodes are modelled as  *)
(* sequences of one-character strings.  Python dicts are functions whose   *)
(* DOMAIN is the set of keys present, so "key in d" is "key \in DOMAIN d". *)
(***************************************************************************)
EXTENDS Integers, Sequences, FiniteSets, TLC

VARIABLES
    pc,          \* position of the prompt_tester call: called, idle, posted,
                 \* responded, returned, saved
    response,    \* the HTTP response object handed back by requests.post
    result,      \* what generate_image returned (or the exception it raised)
    jsonParsed,  \* TRUE once response.json() has been called
    consulted,   \* the response locations generate_image has read, in order
    saved,       \* what save_image wrote to the output file
    vpc,             \* position of verify_dimensions: main, card, scene, verify, exited
    skip_generation, \* run_test's argument (--quick)
    results,         \* run_test's list of (name, filepath, exp_w, exp_h)
    cursor,          \* index of the next element of results to verify
    all_pass,        \* run_test's flag
    exit_code,       \* the exit code of the process, once it exited
    measured,        \* what get_image_dimensions returned, in order
    ipc,           \* position of run_interactive: top, second, card, scene, ended, crashed
    current_mode,  \* run_interactive's current_mode
    card_prompt,   \* run_interactive's locals of the same names
    scene_prompt,
    prompt,
    entry,         \* what the last call of get_multiline_input returned
    args,          \* prompt, width and height of the current call of generate_image
    payload,       \* the JSON body the current call built
    posts,         \* how often the current call has called requests.post
    in_flight      \* requests sent to the endpoint and not yet answered or given up

genVars == <<pc, response, result, jsonParsed, consulted, saved>>

guardVars == <<vpc, skip_generation, results, cursor, all_pass, exit_code, measured>>

loopVars == <<ipc, current_mode, card_prompt, scene_prompt, prompt, entry>>

callVars == <<args, payload, posts, in_flight>>

vars == <<genVars, guardVars, loopVars, callVars>>

-----------------------------------------------------------------------------
(* Bounds of the model *)

MaxImages == 2        \* longest `images` list in a response
MaxContentLen == 2    \* longest `content` list in a response
MaxTextLen == 201     \* longest text (response body, text content)
MaxBytes == 2         \* longest byte sequence of the round trip

-----------------------------------------------------------------------------
(* Python string and dict primitives *)

Min(a, b) == IF a < b THEN a ELSE b

\* s[:n]
Take(s, n) == SubSeq(s, 1, Min(n, Len(s)))

\* s.startswith(p)
StartsWith(s, p) == Len(s) >= Len(p) /\ SubSeq(s, 1, Len(p)) = p

\* position of the first occurrence of character c in s, 0 when there is none
IndexOf(s, c) ==
    IF \E i \in 1..Len(s) : s[i] = c
    THEN CHOOSE i \in 1..Len(s) : s[i] = c /\ \A j \in 1..(i - 1) : s[j] # c
    ELSE 0

\* s.split(c, 1)
SplitOnce(s, c) ==
    LET i == IndexOf(s, c)
    IN  IF i = 0 THEN <<s>>
        ELSE <<SubSeq(s, 1, i - 1), SubSeq(s, i + 1, Len(s))>>

\* s.split(c)
RECURSIVE SplitAll(_, _)
SplitAll(s, c) ==
    LET i == IndexOf(s, c)
    IN  IF i = 0 THEN <<s>>
        ELSE <<SubSeq(s, 1, i - 1)>> \o SplitAll(SubSeq(s, i + 1, Len(s)), c)

\* {}
EmptyDict == [k \in {} |-> 0]

\* d.get(k, default)
Get(d, k, default) == IF k \in DOMAIN d THEN d[k] ELSE default


-----------------------------------------------------------------------------
(* Program constants *)

HTTP_SNIPPET_LEN == 200     \* response.text[:200]
TEXT_SNIPPET_LEN == 200     \* content[:200]

DataScheme == <<"d", "a", "t", "a", ":">>
ImagePng == <<"i", "m", "a", "g", "e", "/", "p", "n", "g">>
ImageTypes == {"output_image", "image", "image_url"}

-----------------------------------------------------------------------------
(* Values returned by generate_image *)

Success(b64, mime) == [success |-> TRUE, image_base64 |-> b64, mime_type |-> mime]

Failure(err) == [success |-> FALSE, error |-> err]

\* f"HTTP {response.status_code}: {response.text[:200]}", kept as its parts
HttpErrorMsg(status, text) ==
    [msg |-> "HTTP", status |-> status, text |-> Take(text, HTTP_SNIPPET_LEN)]

\* TextErrorMsg without the [:200]
TextErrorMsgWhole(content) ==
    [msg |-> "Model returned text instead of image", text |-> content]

\* f"Model returned text instead of image: {content[:200]}", kept as its parts
TextErrorMsg(content) ==
    [msg |-> "Model returned text instead of image",
     text |-> Take(content, TEXT_SNIPPET_LEN)]

NoImageMsg == [msg |-> "No image in response"]

\* the call ended with an exception instead of a return value
Raised(exc) == [raised |-> exc]

\* no return statement was reached yet
Nothing == [nothing |-> TRUE]

\* a response location read by the code: key `key` of element idx of list `at`
Loc(at, idx, key) == [at |-> at, idx |-> idx, key |-> key]

Outcome(res, locs) == [result |-> res, consulted |-> locs]

\* requests.Response.ok: raise_for_status() raises for 400 <= status < 600 only
Ok(status) == ~(400 <= status /\ status < 600)

\* message.content is a JSON string, a JSON list, or another JSON value
StrContent(text) == [str |-> text]
ListContent(items) == [list |-> items]
NullContent == [null |-> TRUE]
IsStr(content) == "str" \in DOMAIN content
IsList(content) == "list" \in DOMAIN content

-----------------------------------------------------------------------------
(* prompt_tester.generate_image: the extraction of the image *)

\* MimeOfHeader without the split on ":" (the scheme stays in the media type)
MimeOfHeaderWhole(header) == SplitAll(header, ";")[1]

\* parts[0].split(":")[1].split(";")[0]
MimeOfHeader(header) == SplitAll(SplitAll(header, ":")[2], ";")[1]

\* FromImageUrl that reports a data URI without a comma as an error at once
FromImageUrlStrict(img) ==
    IF "image_url" \in DOMAIN img /\ "url" \in DOMAIN img.image_url
    THEN LET url == img.image_url.url
         IN  IF StartsWith(url, DataScheme)
             THEN LET parts == SplitOnce(url, ",")
                  IN  IF Len(parts) = 2
                      THEN Success(parts[2], MimeOfHeader(parts[1]))
                      ELSE Failure([msg |-> "Malformed data URI"])
             ELSE Nothing
    ELSE Nothing

\* if "image_url" in img and "url" in img["image_url"]: ...
FromImageUrl(img) ==
    IF "image_url" \in DOMAIN img /\ "url" \in DOMAIN img.image_url
    THEN LET url == img.image_url.url
         IN  IF StartsWith(url, DataScheme)
             THEN LET parts == SplitOnce(url, ",")
                  IN  IF Len(parts) = 2
                      THEN Success(parts[2], MimeOfHeader(parts[1]))
                      ELSE Nothing
             ELSE Nothing
    ELSE Nothing

\* if "inline_data" in obj: ...   (on images[0] and on a content item alike)
FromInlineData(obj) ==
    IF "inline_data" \in DOMAIN obj
    THEN Success(Get(obj.inline_data, "data", <<>>),
                 Get(obj.inline_data, "mime_type", ImagePng))
    ELSE Nothing

\* if "data" in obj: ...          (on images[0] and on a content item alike)
FromBareData(obj) ==
    IF "data" \in DOMAIN obj
    THEN Success(obj.data, Get(obj, "mime_type", ImagePng))
    ELSE Nothing

\* img = images[0]
FirstImage(images) == images[1]

\* FromImages that tries inline_data before image_url
FromImagesInlineFirst(message) ==
    LET images == Get(message, "images", <<>>)
    IN  IF Len(images) > 0
        THEN LET img == FirstImage(images)
                 u == FromImageUrl(img)
                 i == FromInlineData(img)
                 d == FromBareData(img)
                 li == <<Loc("images", 1, "inline_data")>>
                 lu == li \o <<Loc("images", 1, "image_url")>>
                 ld == lu \o <<Loc("images", 1, "data")>>
             IN  IF i # Nothing THEN Outcome(i, li)
                 ELSE IF u # Nothing THEN Outcome(u, lu)
                 ELSE Outcome(d, ld)
        ELSE Outcome(Nothing, <<>>)

\* FromImages that reads message["images"] with no default (a KeyError)
FromImagesKeyed(message) ==
    IF "images" \notin DOMAIN message THEN Outcome(Raised("KeyError"), <<>>)
    ELSE LET images == message.images
         IN  IF Len(images) > 0
             THEN LET img == FirstImage(images)
                      u == FromImageUrl(img)
                      i == FromInlineData(img)
                      d == FromBareData(img)
                      lu == <<Loc("images", 1, "image_url")>>
                      li == lu \o <<Loc("images", 1, "inline_data")>>
                      ld == li \o <<Loc("images", 1, "data")>>
                  IN  IF u # Nothing THEN Outcome(u, lu)
                      ELSE IF i # Nothing THEN Outcome(i, li)
                      ELSE Outcome(d, ld)
             ELSE Outcome(Nothing, <<>>)

\* images = message.get("images", []); if images and len(images) > 0: ...
FromImages(message) ==
    LET images == Get(message, "images", <<>>)
    IN  IF Len(images) > 0
        THEN LET img == FirstImage(images)
                 u == FromImageUrl(img)
                 i == FromInlineData(img)
                 d == FromBareData(img)
                 lu == <<Loc("images", 1, "image_url")>>
                 li == lu \o <<Loc("images", 1, "inline_data")>>
                 ld == li \o <<Loc("images", 1, "data")>>
             IN  IF u # Nothing THEN Outcome(u, lu)
                 ELSE IF i # Nothing THEN Outcome(i, li)
                 ELSE Outcome(d, ld)
        ELSE Outcome(Nothing, <<>>)

\* FromContentList that stops at the first image element, data or not
RECURSIVE FromContentListFirstTyped(_, _)
FromContentListFirstTyped(content, n) ==
    IF n > Len(content) THEN Outcome(Nothing, <<>>)
    ELSE LET item == content[n]
             rest == FromContentListFirstTyped(content, n + 1)
             lt == <<Loc("content", n, "type")>>
             li == lt \o <<Loc("content", n, "inline_data")>>
             ld == li \o <<Loc("content", n, "data")>>
         IN  IF "type" \in DOMAIN item /\ item.type \in ImageTypes
             THEN IF FromInlineData(item) # Nothing
                  THEN Outcome(FromInlineData(item), li)
                  ELSE Outcome(FromBareData(item), ld)
             ELSE Outcome(rest.result, lt \o rest.consulted)

\* for item in content: if item.get("type") in [...]: ...
RECURSIVE FromContentList(_, _)
FromContentList(content, n) ==
    IF n > Len(content) THEN Outcome(Nothing, <<>>)
    ELSE LET item == content[n]
             rest == FromContentList(content, n + 1)
             lt == <<Loc("content", n, "type")>>
             li == lt \o <<Loc("content", n, "inline_data")>>
             ld == li \o <<Loc("content", n, "data")>>
         IN  IF "type" \in DOMAIN item /\ item.type \in ImageTypes
             THEN IF FromInlineData(item) # Nothing
                  THEN Outcome(FromInlineData(item), li)
                  ELSE IF FromBareData(item) # Nothing
                  THEN Outcome(FromBareData(item), ld)
                  ELSE Outcome(rest.result, ld \o rest.consulted)
             ELSE Outcome(rest.result, lt \o rest.consulted)

\* if isinstance(content, str) and content: ... ; return "No image in response"
FromText(content) ==
    IF IsStr(content) /\ content.str # <<>>
    THEN Failure(TextErrorMsg(content.str))
    ELSE Failure(NoImageMsg)

\* message = data.get("choices", [{}])[0].get("message", {})
FirstMessage(data) ==
    LET choices == Get(data, "choices", <<EmptyDict>>)
    IN  IF Len(choices) = 0 THEN Raised("IndexError")
        ELSE Get(choices[1], "message", EmptyDict)

\* everything generate_image does with the parsed JSON `data`
ExtractImage(data) ==
    LET message == FirstMessage(data)
    IN  IF message = Raised("IndexError") THEN Outcome(message, <<>>)
        ELSE LET im == FromImages(message)
                 content == Get(message, "content", StrContent(<<>>))
                 cl == IF IsList(content) THEN FromContentList(content.list, 1)
                       ELSE Outcome(Nothing, <<>>)
                 seen == im.consulted \o <<Loc("message", 0, "content")>> \o cl.consulted
             IN  IF im.result # Nothing THEN im
                 ELSE IF cl.result # Nothing THEN Outcome(cl.result, seen)
                 ELSE Outcome(FromText(content), seen)

-----------------------------------------------------------------------------
(* base64, as load_image encodes (base64.b64encode) and save_image decodes   *)
(* (base64.b64decode, which is binascii.a2b_base64 in its lenient mode).     *)
(* A byte is an integer in 0..255.                                           *)

B64Alphabet ==
    <<"A", "B", "C", "D", "E", "F", "G", "H", "I", "J", "K", "L", "M",
      "N", "O", "P", "Q", "R", "S", "T", "U", "V", "W", "X", "Y", "Z",
      "a", "b", "c", "d", "e", "f", "g", "h", "i", "j", "k", "l", "m",
      "n", "o", "p", "q", "r", "s", "t", "u", "v", "w", "x", "y", "z",
      "0", "1", "2", "3", "4", "5", "6", "7", "8", "9", "+", "/">>

B64Char(v) == B64Alphabet[v + 1]

B64Value(c) == IndexOf(B64Alphabet, c) - 1

\* base64.b64encode(bytes).decode("utf-8")
RECURSIVE B64Encode(_)
B64Encode(bytes) ==
    IF Len(bytes) = 0 THEN <<>>
    ELSE IF Len(bytes) = 1
    THEN <<B64Char(bytes[1] \div 4), B64Char((bytes[1] % 4) * 16), "=", "=">>
    ELSE IF Len(bytes) = 2
    THEN <<B64Char(bytes[1] \div 4),
           B64Char((bytes[1] % 4) * 16 + bytes[2] \div 16),
           B64Char((bytes[2] % 16) * 4), "=">>
    ELSE <<B64Char(bytes[1] \div 4),
           B64Char((bytes[1] % 4) * 16 + bytes[2] \div 16),
           B64Char((bytes[2] % 16) * 4 + bytes[3] \div 64),
           B64Char(bytes[3] % 64)>>
         \o B64Encode(SubSeq(bytes, 4, Len(bytes)))

\* the bytes a successful decode returns
Decoded(bytes) == [bytes |-> bytes]

\* the decoder's loop: quad is the position in the current group of four
\* characters, left the bits not yet written, pads the padding seen so far
RECURSIVE A2B(_, _, _, _, _, _)
A2B(s, n, quad, left, pads, out) ==
    IF n > Len(s)
    THEN IF quad # 0 THEN Raised("binascii.Error") ELSE Decoded(out)
    ELSE IF s[n] = "="
    THEN IF quad >= 2 /\ quad + pads + 1 >= 4 THEN Decoded(out)
         ELSE A2B(s, n + 1, quad, left, IF quad >= 2 THEN pads + 1 ELSE pads, out)
    ELSE IF B64Value(s[n]) < 0
    THEN A2B(s, n + 1, quad, left, pads, out)
    ELSE LET v == B64Value(s[n])
         IN  CASE quad = 0 -> A2B(s, n + 1, 1, v, 0, out)
               [] quad = 1 ->
                    A2B(s, n + 1, 2, v % 16, 0, Append(out, left * 4 + v \div 16))
               [] quad = 2 ->
                    A2B(s, n + 1, 3, v % 4, 0, Append(out, left * 16 + v \div 4))
               [] OTHER ->
                    A2B(s, n + 1, 0, 0, 0, Append(out, left * 64 + v))

\* base64.b64decode(base64_data)
B64Decode(s) == A2B(s, 1, 0, 0, 0, <<>>)

-----------------------------------------------------------------------------
(* The responses the endpoint may send.  Each payload is tied to the place   *)
(* it sits in, so a result tells which location it was taken from.           *)

ImageJpeg == <<"i", "m", "a", "g", "e", "/", "j", "p", "e", "g">>
ImageWebp == <<"i", "m", "a", "g", "e", "/", "w", "e", "b", "p">>
ImageGif == <<"i", "m", "a", "g", "e", "/", "g", "i", "f">>
Base64Tag == <<";", "b", "a", "s", "e", "6", "4">>
HttpsUrl == <<"h", "t", "t", "p", "s", ":", "/", "/", "x", "/", "i", ".", "p", "n", "g">>

PUrl == <<"Q", "Q", "=", "=">>        \* under images[0].image_url.url
PInline == <<"Q", "g", "=", "=">>     \* under images[0].inline_data.data
PBare == <<"Q", "w", "=", "=">>       \* under images[0].data
POther == <<"R", "A", "=", "=">>      \* in a later element of images
PItemInline == <<"R", "Q", "=", "=">> \* under inline_data.data of a content item
PItemBare == <<"R", "g", "=", "=">>   \* under data of a content item

\* f"data:{mime};base64,{payload}"
DataUri(mime, b64) == DataScheme \o mime \o Base64Tag \o <<",">> \o b64

Digits == <<"0", "1", "2", "3", "4", "5", "6", "7", "8", "9">>

\* a text of n characters in which neighbours differ
Text(n) == [k \in 1..n |-> Digits[(k % 10) + 1]]

Texts == {Text(n) : n \in {0, 1, TEXT_SNIPPET_LEN - 1, TEXT_SNIPPET_LEN, MaxTextLen}}

Urls ==
    { DataUri(ImageJpeg, PUrl),                          \* well formed
      DataScheme \o ImageJpeg \o Base64Tag,              \* no comma
      DataScheme \o Base64Tag \o <<",">> \o PUrl,         \* no media type
      DataScheme \o <<",">> \o PUrl,                      \* empty header
      DataUri(ImageGif, PUrl) \o <<",">> \o PInline,      \* a second comma
      HttpsUrl }                                         \* no data URI

UrlOpts ==
    {EmptyDict, [image_url |-> EmptyDict]} \cup {[image_url |-> [url |-> u]] : u \in Urls}

InlineOpts ==
    { EmptyDict,
      [inline_data |-> EmptyDict],
      [inline_data |-> [data |-> PInline]],
      [inline_data |-> [data |-> PInline, mime_type |-> ImageJpeg]] }

BareOpts ==
    { EmptyDict,
      [data |-> PBare],
      [data |-> PBare, mime_type |-> ImageWebp],
      [mime_type |-> ImageWebp] }

FirstImgs == {u @@ i @@ d : u \in UrlOpts, i \in InlineOpts, d \in BareOpts}

RichImg ==
    [image_url |-> [url |-> DataUri(ImageGif, POther)],
     inline_data |-> [data |-> POther, mime_type |-> ImageGif],
     data |-> POther, mime_type |-> ImageGif]

OtherImgs == {EmptyDict, RichImg}

\* the sequences over S of length at most n
RECURSIVE SeqsUpTo(_, _)
SeqsUpTo(S, n) ==
    IF n = 0 THEN {<<>>}
    ELSE LET shorter == SeqsUpTo(S, n - 1)
         IN  shorter \cup {Append(q, x) : q \in shorter, x \in S}

ImageLists ==
    {<<>>} \cup {<<f>> \o tail : f \in FirstImgs, tail \in SeqsUpTo(OtherImgs, MaxImages - 1)}

NoCommaImg == [image_url |-> [url |-> DataScheme \o ImageJpeg \o Base64Tag]]

FewImageLists == {<<>>, <<NoCommaImg>>, <<NoCommaImg, RichImg>>, <<RichImg>>}

ItemTypes == {EmptyDict, [type |-> "text"], [type |-> "image"],
              [type |-> "output_image"], [type |-> "image_url"]}

ItemBodies ==
    { EmptyDict,
      [inline_data |-> [data |-> PItemInline, mime_type |-> ImageJpeg]],
      [data |-> PItemBare],
      [inline_data |-> [data |-> PItemInline], data |-> PItemBare,
       mime_type |-> ImageWebp] }

Items == {t @@ b : t \in ItemTypes, b \in ItemBodies}

Contents ==
    {NullContent} \cup {StrContent(t) : t \in Texts}
    \cup {ListContent(l) : l \in SeqsUpTo(Items, MaxContentLen)}

FewContents ==
    { NullContent, StrContent(<<>>), StrContent(Text(1)), ListContent(<<>>),
      ListContent(<<[type |-> "text"], [type |-> "image", data |-> PItemBare]>>) }

WithImages(S) == {EmptyDict} \cup {[images |-> l] : l \in S}
WithContent(S) == {EmptyDict} \cup {[content |-> c] : c \in S}

\* many shapes of images with a few of content, and the other way round
Messages ==
    {i @@ c : i \in WithImages(ImageLists), c \in WithContent(FewContents)}
    \cup {i @@ c : i \in WithImages(FewImageLists), c \in WithContent(Contents)}

RichMessage == [images |-> <<RichImg>>, content |-> StrContent(Text(1))]

Datas ==
    {EmptyDict, [choices |-> <<>>], [choices |-> <<EmptyDict>>]}
    \cup {[choices |-> <<[message |-> m]>>] : m \in Messages}
    \cup {[choices |-> <<EmptyDict, [message |-> RichMessage]>>]}

FewDatas ==
    {[choices |-> <<>>], [choices |-> <<[message |-> RichMessage]>>],
     [choices |-> <<[message |-> [content |-> StrContent(Text(1))]]>>]}

\* a body that is no JSON document
NotJson == [notjson |-> TRUE]

Statuses == {200, 201, 304, 399, 400, 401, 404, 500, 599, 600}

\* a response: its status, its body as text, and the body parsed as JSON
Resp(status, text, json) == [status_code |-> status, text |-> text, json |-> json]

Responses ==
    {Resp(200, Text(1), d) : d \in Datas}
    \cup {Resp(st, t, d) : st \in Statuses, t \in Texts, d \in FewDatas \cup {NotJson}}

-----------------------------------------------------------------------------
(* prompt_tester.generate_image and save_image as steps of one call *)

\* HandleReturn that calls response.json() before it looks at the status
HandleReturnParseFirst(resp) ==
    IF resp.json = NotJson
    THEN [result |-> Raised("JSONDecodeError"), jsonParsed |-> TRUE, consulted |-> <<>>]
    ELSE IF ~Ok(resp.status_code)
    THEN [result |-> Failure(HttpErrorMsg(resp.status_code, resp.text)),
          jsonParsed |-> TRUE, consulted |-> <<>>]
    ELSE [result |-> ExtractImage(resp.json).result, jsonParsed |-> TRUE,
          consulted |-> ExtractImage(resp.json).consulted]

\* what generate_image does with the response of requests.post
HandleReturn(resp) ==
    IF ~Ok(resp.status_code)
    THEN [result |-> Failure(HttpErrorMsg(resp.status_code, resp.text)),
          jsonParsed |-> FALSE, consulted |-> <<>>]
    ELSE IF resp.json = NotJson
    THEN [result |-> Raised("JSONDecodeError"), jsonParsed |-> TRUE, consulted |-> <<>>]
    ELSE [result |-> ExtractImage(resp.json).result, jsonParsed |-> TRUE,
          consulted |-> ExtractImage(resp.json).consulted]

\* the state of the prompt tester before position p
GenAt(p) ==
    /\ pc = p
    /\ response = Nothing
    /\ result = Nothing
    /\ jsonParsed = FALSE
    /\ consulted = <<>>
    /\ saved = Nothing

\* response = requests.post(...) returns
Post ==
    /\ pc = "idle"
    /\ \E r \in Responses : response' = r
    /\ pc' = "responded"
    /\ UNCHANGED <<result, jsonParsed, consulted, saved>>
    /\ UNCHANGED <<guardVars, loopVars, callVars>>

\* requests.post(..., timeout=timeout) raises; generate_image has no handler
PostTimeout ==
    /\ pc = "idle"
    /\ result' = Raised("Timeout")
    /\ pc' = "returned"
    /\ UNCHANGED <<response, jsonParsed, consulted, saved>>
    /\ UNCHANGED <<guardVars, loopVars, callVars>>

\* the rest of generate_image, from `if not response.ok` to its return
HandleResponse ==
    /\ pc = "responded"
    /\ result' = HandleReturn(response).result
    /\ jsonParsed' = HandleReturn(response).jsonParsed
    /\ consulted' = HandleReturn(response).consulted
    /\ pc' = "returned"
    /\ UNCHANGED <<response, saved>>
    /\ UNCHANGED <<guardVars, loopVars, callVars>>

\* if result["success"]: save_image(result["image_base64"], path)
SaveImage ==
    /\ pc = "returned"
    /\ "success" \in DOMAIN result
    /\ result.success
    /\ saved' = B64Decode(result.image_base64)
    /\ pc' = "saved"
    /\ UNCHANGED <<response, result, jsonParsed, consulted>>
    /\ UNCHANGED <<guardVars, loopVars, callVars>>

-----------------------------------------------------------------------------
(* The round trip: bytes are encoded into a data URI as load_image and the  *)
(* request builder do, the URI comes back as images[0].image_url.url.       *)

ByteValues == {0, 16, 65, 251, 255}

\* the non-empty byte sequences of length at most MaxBytes
ByteSeqs == SeqsUpTo(ByteValues, MaxBytes) \ {<<>>}

SvgXml == <<"i", "m", "a", "g", "e", "/", "s", "v", "g", "+", "x", "m", "l">>

MediaTypes == {ImagePng, ImageJpeg, ImageGif, ImageWebp, SvgXml}

\* the encoding of every byte sequence of the model
Encoded == [bytes \in ByteSeqs |-> B64Encode(bytes)]

EncodedResponse(bytes, mime) ==
    Resp(200, Text(1),
         [choices |-> <<[message |->
             [images |-> <<[image_url |-> [url |-> DataUri(mime, Encoded[bytes])]]>>]]>>])

\* requests.post returns a response that carries an encoded image
PostEncoded ==
    /\ pc = "idle"
    /\ \E bytes \in ByteSeqs, mime \in MediaTypes : response' = EncodedResponse(bytes, mime)
    /\ pc' = "responded"
    /\ UNCHANGED <<result, jsonParsed, consulted, saved>>
    /\ UNCHANGED <<guardVars, loopVars, callVars>>

-----------------------------------------------------------------------------
(* verify_dimensions.py *)

CARD_WIDTH == 1728
CARD_HEIGHT == 2304
SCENE_WIDTH == 2560
SCENE_HEIGHT == 1440

\* Python's None
None == [none |-> TRUE]

\* a non-None string returned by generate_image
B64(chars) == [b64 |-> chars]

PngHeader == DataScheme \o ImagePng \o Base64Tag

\* the responses the endpoint may send to the guardrail test
GuardResponses ==
    { Resp(401, Text(1), NotJson),
      Resp(500, Text(1), [choices |-> <<>>]),
      Resp(200, Text(1), NotJson),
      Resp(200, Text(1), EmptyDict),
      Resp(200, Text(1), [choices |-> <<>>]),
      Resp(200, Text(1), [choices |-> <<[message |-> [content |-> StrContent(Text(1))]]>>]),
      Resp(200, Text(1), [choices |-> <<[message |-> [images |-> <<>>]]>>]),
      Resp(200, Text(1), [choices |-> <<[message |-> [images |-> <<[data |-> PBare]>>]]>>]),
      Resp(200, Text(1), [choices |-> <<[message |-> [images |-> <<[image_url |-> EmptyDict]>>]]>>]) }
    \cup { Resp(200, Text(1),
                [choices |-> <<[message |-> [images |-> <<[image_url |-> [url |-> u]]>>]]>>])
           : u \in { HttpsUrl, PngHeader, PngHeader \o <<",">>,
                     PngHeader \o <<",", "Q">>, DataUri(ImagePng, PUrl) } }

\* verify_dimensions.generate_image from `if not response.ok` to its return
GuardGenerateImage(resp) ==
    IF ~Ok(resp.status_code) THEN None
    ELSE IF resp.json = NotJson THEN Raised("JSONDecodeError")
    ELSE LET msg == FirstMessage(resp.json)
         IN  IF msg = Raised("IndexError") THEN msg
             ELSE LET imgs == Get(msg, "images", <<>>)
                  IN  IF Len(imgs) > 0 /\ "image_url" \in DOMAIN imgs[1]
                      THEN IF "url" \notin DOMAIN imgs[1].image_url THEN Raised("KeyError")
                           ELSE IF StartsWith(imgs[1].image_url.url, DataScheme)
                           THEN LET parts == SplitOnce(imgs[1].image_url.url, ",")
                                IN  IF Len(parts) < 2 THEN Raised("IndexError")
                                    ELSE B64(parts[2])
                           ELSE None
                      ELSE None

\* what may happen inside one call of generate_image: requests is missing,
\* requests.post raises, or a response arrives
Calls ==
    {[kind |-> "ImportError"], [kind |-> "Timeout"]}
    \cup {[kind |-> "response", resp |-> r] : r \in GuardResponses}

\* what get_image_dimensions may do on a file: PIL is missing, the file is no
\* image, or the image has some size
Sizes ==
    { <<CARD_WIDTH, CARD_HEIGHT>>, <<SCENE_WIDTH, SCENE_HEIGHT>>,
      <<CARD_WIDTH, CARD_WIDTH>>, <<CARD_HEIGHT, CARD_WIDTH>>,
      <<SCENE_WIDTH, SCENE_HEIGHT + 1>> }

Measurements ==
    {[kind |-> "ImportError"], [kind |-> "UnidentifiedImageError"]}
    \cup {[kind |-> "size", w |-> sz[1], h |-> sz[2]] : sz \in Sizes}

ResultRow(name, filepath, w, h) == [name |-> name, filepath |-> filepath, exp_w |-> w, exp_h |-> h]

\* the process ends with exit code `code`
Exit(code) ==
    /\ exit_code' = code
    /\ vpc' = "exited"

\* the state of the guardrail test at position p
GuardAt(p) ==
    /\ vpc = p
    /\ results = <<>>
    /\ cursor = 1
    /\ all_pass = TRUE
    /\ exit_code = -1
    /\ measured = <<>>

\* run_test, full mode: the API key and the test photo are looked up
LoadEnv ==
    /\ vpc = "main"
    /\ ~skip_generation
    /\ \E api_key \in BOOLEAN, photo \in BOOLEAN :
           IF ~api_key \/ ~photo
           THEN Exit(2)
           ELSE vpc' = "card" /\ UNCHANGED exit_code
    /\ UNCHANGED <<skip_generation, results, cursor, all_pass, measured>>
    /\ UNCHANGED <<genVars, loopVars, callVars>>

\* b64 = generate_image(...); if b64: write the decoded file and record its
\* path, else record None.  An exception that nothing catches ends the
\* process with exit code 1.
Generate(name, w, h, next) ==
    \E call \in Calls :
        IF call.kind = "ImportError" THEN Exit(2) /\ UNCHANGED results
        ELSE IF call.kind = "Timeout" THEN Exit(1) /\ UNCHANGED results
        ELSE LET b64 == GuardGenerateImage(call.resp)
             IN  IF "raised" \in DOMAIN b64 THEN Exit(1) /\ UNCHANGED results
                 ELSE IF "b64" \in DOMAIN b64 /\ Len(b64.b64) > 0
                 THEN IF "raised" \in DOMAIN B64Decode(b64.b64)
                      THEN Exit(1) /\ UNCHANGED results
                      ELSE /\ results' = Append(results, ResultRow(name, [path |-> name], w, h))
                           /\ vpc' = next
                           /\ UNCHANGED exit_code
                 ELSE /\ results' = Append(results, ResultRow(name, None, w, h))
                      /\ vpc' = next
                      /\ UNCHANGED exit_code

GenerateCard ==
    /\ vpc = "card"
    /\ Generate("CARD", CARD_WIDTH, CARD_HEIGHT, "scene")
    /\ UNCHANGED <<skip_generation, cursor, all_pass, measured>>
    /\ UNCHANGED <<genVars, loopVars, callVars>>

GenerateScene ==
    /\ vpc = "scene"
    /\ Generate("SCENE", SCENE_WIDTH, SCENE_HEIGHT, "verify")
    /\ UNCHANGED <<skip_generation, cursor, all_pass, measured>>
    /\ UNCHANGED <<genVars, loopVars, callVars>>

\* run_test, quick mode: the most recent files of the output folder, if any
QuickScan ==
    /\ vpc = "main"
    /\ skip_generation
    /\ \E card_files \in BOOLEAN, scene_files \in BOOLEAN :
           results' =
               (IF card_files
                THEN <<ResultRow("CARD", [path |-> "CARD"], CARD_WIDTH, CARD_HEIGHT)>>
                ELSE <<>>)
               \o (IF scene_files
                   THEN <<ResultRow("SCENE", [path |-> "SCENE"], SCENE_WIDTH, SCENE_HEIGHT)>>
                   ELSE <<>>)
    /\ vpc' = "verify"
    /\ UNCHANGED <<skip_generation, cursor, all_pass, exit_code, measured>>
    /\ UNCHANGED <<genVars, loopVars, callVars>>

\* the checks of one measured file
SizePasses(row, m) ==
    /\ m.w = row.exp_w /\ m.h = row.exp_h
    /\ ~(m.w = m.h /\ row.exp_w # row.exp_h)

\* one turn of `for name, filepath, exp_w, exp_h in results`
VerifyResult ==
    /\ vpc = "verify"
    /\ cursor <= Len(results)
    /\ LET row == results[cursor]
       IN  IF row.filepath = None
           THEN /\ all_pass' = FALSE
                /\ cursor' = cursor + 1
                /\ UNCHANGED <<vpc, exit_code, measured>>
           ELSE \E m \in Measurements :
                    IF m.kind = "ImportError"
                    THEN Exit(2) /\ UNCHANGED <<cursor, all_pass, measured>>
                    ELSE IF m.kind = "UnidentifiedImageError"
                    THEN Exit(1) /\ UNCHANGED <<cursor, all_pass, measured>>
                    ELSE /\ all_pass' = (all_pass /\ SizePasses(row, m))
                         /\ measured' = Append(measured, [name |-> row.name, w |-> m.w, h |-> m.h])
                         /\ cursor' = cursor + 1
                         /\ UNCHANGED <<vpc, exit_code>>
    /\ UNCHANGED <<skip_generation, results>>
    /\ UNCHANGED <<genVars, loopVars, callVars>>

\* return 0 if all_pass else 1; main: sys.exit(run_test(...))
Finish ==
    /\ vpc = "verify"
    /\ cursor > Len(results)
    /\ Exit(IF all_pass THEN 0 ELSE 1)
    /\ UNCHANGED <<skip_generation, results, cursor, all_pass, measured>>
    /\ UNCHANGED <<genVars, loopVars, callVars>>

-----------------------------------------------------------------------------
(* prompt_tester.generate_image: the request *)

\* an int passed as width or height; None is passed when there is none
IntArg(n) == [int |-> n]

\* Python's truth value of an argument that is None or an int
Truthy(x) == "int" \in DOMAIN x /\ x.int # 0

Abs(n) == IF n < 0 THEN -n ELSE n

\* math.gcd
RECURSIVE Gcd(_, _)
Gcd(a, b) == IF b = 0 THEN Abs(a) ELSE Gcd(Abs(b), Abs(a) % Abs(b))

\* str(n) of an int, as its characters
RECURSIVE Decimal(_)
Decimal(n) ==
    IF n < 0 THEN <<"-">> \o Decimal(-n)
    ELSE IF n < 10 THEN <<Digits[n + 1]>>
    ELSE Decimal(n \div 10) \o <<Digits[(n % 10) + 1]>>

\* the text put before the prompt, as the pieces the f-string joins
DimensionInstruction(width, height) ==
    IF Truthy(width) /\ Truthy(height)
    THEN <<"OUTPUT IMAGE SPECIFICATIONS:\n- Exact dimensions: ">>
         \o Decimal(width.int) \o <<"x">> \o Decimal(height.int)
         \o <<" pixels\n- Aspect ratio: ">>
         \o Decimal(width.int) \o <<":">> \o Decimal(height.int)
         \o <<"\n- Orientation: ",
              IF height.int > width.int THEN "portrait (taller than wide)"
                                        ELSE "landscape (wider than tall)",
              "\n- DO NOT generate a square image\n\n">>
    ELSE <<>>

\* aspect_ratio = f"{width // divisor}:{height // divisor}"; divisor is
\* positive, so // is \div
AspectRatio(width, height) ==
    LET divisor == Gcd(width, height)
    IN  Decimal(width \div divisor) \o <<":">> \o Decimal(height \div divisor)

\* the payload without the width and height hints
BasePayload(full_prompt) ==
    [model |-> "model",
     messages |-> <<[role |-> "user",
                     content |-> <<[type |-> "text", text |-> full_prompt],
                                   [type |-> "image_url",
                                    image_url |-> [url |-> DataUri(ImageJpeg, PUrl)]]>>]>>,
     max_tokens |-> 4096]

\* the JSON body generate_image builds from its arguments
Payload(a) ==
    LET base == BasePayload(DimensionInstruction(a.width, a.height) \o a.prompt)
    IN  IF Truthy(a.width) /\ Truthy(a.height)
        THEN [image_size |-> [width |-> a.width.int, height |-> a.height.int],
              image_config |-> [aspect_ratio |-> AspectRatio(a.width.int, a.height.int)]]
             @@ base
        ELSE base

\* the widths and heights a caller may pass
Dimensions ==
    {None} \cup {IntArg(n) : n \in {-CARD_WIDTH, -1, 0, 1, 2, SCENE_HEIGHT,
                                 CARD_WIDTH, CARD_HEIGHT, SCENE_WIDTH}}

Orc == <<"o", "r", "c">>

CallArgs ==
    {[prompt |-> p, width |-> w, height |-> h] :
        p \in {<<>>, Orc}, w \in Dimensions, h \in Dimensions}

\* the responses the endpoint may send to one call made for a caller
CallResponses ==
    { Resp(200, Text(1), [choices |-> <<[message |-> [images |-> <<[image_url |-> [url |-> u]]>>]]>>])
        : u \in {DataUri(ImagePng, PUrl), DataUri(ImagePng, <<"Q">>)} }
    \cup { Resp(200, Text(1), [choices |-> <<[message |-> [content |-> StrContent(Text(1))]]>>]),
           Resp(200, Text(1), [choices |-> <<>>]),
           Resp(200, Text(1), NotJson),
           Resp(500, Text(1), NotJson) }

\* no call of generate_image was made yet
NoCall ==
    /\ args = Nothing
    /\ payload = Nothing
    /\ posts = 0
    /\ in_flight = 0

\* generate_image up to requests.post: the full prompt and the payload
BuildPayload ==
    /\ pc = "called"
    /\ payload' = Payload(args)
    /\ pc' = "idle"
    /\ UNCHANGED <<response, result, jsonParsed, consulted, saved>>
    /\ UNCHANGED <<args, posts, in_flight>>
    /\ UNCHANGED <<guardVars, loopVars>>

\* requests.post(...) sends the request and blocks
SendRequest ==
    /\ pc = "idle"
    /\ payload # Nothing
    /\ posts' = posts + 1
    /\ in_flight' = in_flight + 1
    /\ pc' = "posted"
    /\ UNCHANGED <<response, result, jsonParsed, consulted, saved>>
    /\ UNCHANGED <<args, payload>>
    /\ UNCHANGED <<guardVars, loopVars>>

\* requests.post returns the response
ReceiveResponse ==
    /\ pc = "posted"
    /\ \E r \in CallResponses : response' = r
    /\ in_flight' = in_flight - 1
    /\ pc' = "responded"
    /\ UNCHANGED <<result, jsonParsed, consulted, saved>>
    /\ UNCHANGED <<args, payload, posts>>
    /\ UNCHANGED <<guardVars, loopVars>>

\* requests.post gives up after `timeout` seconds and raises; generate_image
\* has no handler, so the exception reaches its caller
RequestTimeout ==
    /\ pc = "posted"
    /\ result' = Raised("Timeout")
    /\ in_flight' = in_flight - 1
    /\ pc' = "returned"
    /\ UNCHANGED <<response, jsonParsed, consulted, saved>>
    /\ UNCHANGED <<args, payload, posts>>
    /\ UNCHANGED <<guardVars, loopVars>>

-----------------------------------------------------------------------------
(* prompt_tester.get_multiline_input and run_interactive *)

UpperLetters ==
    <<"A", "B", "C", "D", "E", "F", "G", "H", "I", "J", "K", "L", "M",
      "N", "O", "P", "Q", "R", "S", "T", "U", "V", "W", "X", "Y", "Z">>

LowerLetters ==
    <<"a", "b", "c", "d", "e", "f", "g", "h", "i", "j", "k", "l", "m",
      "n", "o", "p", "q", "r", "s", "t", "u", "v", "w", "x", "y", "z">>

\* str.lower
Lower(s) ==
    [k \in 1..Len(s) |->
        IF \E i \in 1..Len(UpperLetters) : UpperLetters[i] = s[k]
        THEN LowerLetters[CHOOSE i \in 1..Len(UpperLetters) : UpperLetters[i] = s[k]]
        ELSE s[k]]

Whitespace == {" ", "\t", "\n", "\r"}

\* str.strip
RECURSIVE Strip(_)
Strip(s) ==
    IF Len(s) = 0 THEN <<>>
    ELSE IF s[1] \in Whitespace THEN Strip(SubSeq(s, 2, Len(s)))
    ELSE IF s[Len(s)] \in Whitespace THEN Strip(SubSeq(s, 1, Len(s) - 1))
    ELSE s

\* "\n".join(lines)
RECURSIVE Join(_)
Join(lines) ==
    IF Len(lines) = 0 THEN <<>>
    ELSE IF Len(lines) = 1 THEN lines[1]
    ELSE lines[1] \o <<"\n">> \o Join(Tail(lines))

\* get_multiline_input on the lines typed before the empty line (or the end
\* of input) that submits them
GetMultilineInput(typed) == Strip(Join(typed))

Quit == <<"q", "u", "i", "t">>
ExitWord == <<"e", "x", "i", "t">>
Q == <<"q">>
Card == <<"c", "a", "r", "d">>
Scene == <<"s", "c", "e", "n", "e">>
Both == <<"b", "o", "t", "h">>

\* what the user may type at one prompt: nothing, blanks, the command words
\* in some spellings, and prompts that are no command
Typed ==
    { <<>>, <<<<" ">>>>,
      <<Quit>>, <<ExitWord>>, <<Q>>, <<Card>>, <<Scene>>, <<Both>>,
      << <<"Q", "u", "i", "t", " ">> >>, << <<" ", "B", "O", "T", "H">> >>,
      <<Orc>>, <<Card \o <<" ">> \o Orc>>, <<Quit, Orc>> }

\* a value returned by get_multiline_input
Entered(e) == [text |-> e]

\* main: the mode chosen by --card and --scene
MainMode(card, scene) ==
    IF card /\ scene THEN "both"
    ELSE IF card THEN "card"
    ELSE IF scene THEN "scene"
    ELSE "both"

\* the state of run_interactive at position p, before any input
LoopAt(p) ==
    /\ ipc = p
    /\ card_prompt = Nothing
    /\ scene_prompt = Nothing
    /\ prompt = Nothing
    /\ entry = Nothing

\* result = generate_image(prompt=p, width=w, height=h, ...) is entered
StartCall(p, w, h) ==
    /\ args' = [prompt |-> p, width |-> IntArg(w), height |-> IntArg(h)]
    /\ payload' = Nothing
    /\ posts' = 0
    /\ pc' = "called"
    /\ response' = Nothing
    /\ result' = Nothing
    /\ jsonParsed' = FALSE
    /\ consulted' = <<>>
    /\ saved' = Nothing
    /\ UNCHANGED in_flight

\* both mode, first prompt: from get_multiline_input to the command checks
ReadCardPrompt ==
    /\ ipc = "top"
    /\ current_mode = "both"
    /\ \E typed \in Typed :
        LET e == GetMultilineInput(typed)
            cmd == Strip(Lower(e))
        IN  /\ card_prompt' = e
            /\ entry' = Entered(e)
            /\ IF Len(e) = 0 THEN UNCHANGED <<ipc, current_mode>>
               ELSE IF cmd \in {Quit, ExitWord, Q} THEN ipc' = "ended" /\ UNCHANGED current_mode
               ELSE IF cmd = Card THEN current_mode' = "card" /\ UNCHANGED ipc
               ELSE IF cmd = Scene THEN current_mode' = "scene" /\ UNCHANGED ipc
               ELSE ipc' = "second" /\ UNCHANGED current_mode
    /\ UNCHANGED <<scene_prompt, prompt>>
    /\ UNCHANGED <<genVars, guardVars, callVars>>

\* both mode, second prompt: the same checks, then the CARD call is made
ReadScenePrompt ==
    /\ ipc = "second"
    /\ \E typed \in Typed :
        LET e == GetMultilineInput(typed)
            cmd == Strip(Lower(e))
        IN  /\ scene_prompt' = e
            /\ entry' = Entered(e)
            /\ IF Len(e) = 0
               THEN ipc' = "top" /\ UNCHANGED <<current_mode, genVars, callVars>>
               ELSE IF cmd \in {Quit, ExitWord, Q}
               THEN ipc' = "ended" /\ UNCHANGED <<current_mode, genVars, callVars>>
               ELSE IF cmd = Card
               THEN current_mode' = "card" /\ ipc' = "top" /\ UNCHANGED <<genVars, callVars>>
               ELSE IF cmd = Scene
               THEN current_mode' = "scene" /\ ipc' = "top" /\ UNCHANGED <<genVars, callVars>>
               ELSE /\ ipc' = "card"
                    /\ StartCall(card_prompt, CARD_WIDTH, CARD_HEIGHT)
                    /\ UNCHANGED current_mode
    /\ UNCHANGED <<card_prompt, prompt>>
    /\ UNCHANGED guardVars

\* card or scene mode: the prompt, the command checks, then the call
ReadPrompt ==
    /\ ipc = "top"
    /\ current_mode # "both"
    /\ \E typed \in Typed :
        LET e == GetMultilineInput(typed)
            cmd == Strip(Lower(e))
        IN  /\ prompt' = e
            /\ entry' = Entered(e)
            /\ IF Len(e) = 0
               THEN UNCHANGED <<ipc, current_mode, genVars, callVars>>
               ELSE IF cmd \in {Quit, ExitWord, Q}
               THEN ipc' = "ended" /\ UNCHANGED <<current_mode, genVars, callVars>>
               ELSE IF cmd = Card
               THEN current_mode' = "card" /\ UNCHANGED <<ipc, genVars, callVars>>
               ELSE IF cmd = Scene
               THEN current_mode' = "scene" /\ UNCHANGED <<ipc, genVars, callVars>>
               ELSE IF cmd = Both
               THEN current_mode' = "both" /\ UNCHANGED <<ipc, genVars, callVars>>
               ELSE IF current_mode = "card"
               THEN /\ ipc' = "card"
                    /\ StartCall(e, CARD_WIDTH, CARD_HEIGHT)
                    /\ UNCHANGED current_mode
               ELSE /\ ipc' = "scene"
                    /\ StartCall(e, SCENE_WIDTH, SCENE_HEIGHT)
                    /\ UNCHANGED current_mode
    /\ UNCHANGED <<card_prompt, scene_prompt>>
    /\ UNCHANGED guardVars

\* generate_image returned and, on success, save_image wrote the file: the
\* loop printed SUCCESS or FAILED
CallDone ==
    \/ pc = "returned" /\ "success" \in DOMAIN result /\ ~result.success
    \/ pc = "saved" /\ "bytes" \in DOMAIN saved

\* generate_image or save_image raised
CallRaised ==
    \/ pc = "returned" /\ "raised" \in DOMAIN result
    \/ pc = "saved" /\ "raised" \in DOMAIN saved

\* after the CARD call: in both mode the SCENE call follows, in card mode the
\* loop goes round
AfterCard ==
    /\ ipc = "card"
    /\ CallDone
    /\ IF current_mode = "both"
       THEN ipc' = "scene" /\ StartCall(scene_prompt, SCENE_WIDTH, SCENE_HEIGHT)
       ELSE ipc' = "top" /\ pc' = "off"
            /\ UNCHANGED <<response, result, jsonParsed, consulted, saved, callVars>>
    /\ UNCHANGED <<current_mode, card_prompt, scene_prompt, prompt, entry>>
    /\ UNCHANGED guardVars

\* after the SCENE call the loop goes round
AfterScene ==
    /\ ipc = "scene"
    /\ CallDone
    /\ ipc' = "top"
    /\ pc' = "off"
    /\ UNCHANGED <<response, result, jsonParsed, consulted, saved, callVars>>
    /\ UNCHANGED <<current_mode, card_prompt, scene_prompt, prompt, entry>>
    /\ UNCHANGED guardVars

\* run_interactive and main have no handler: an exception raised inside a
\* call leaves the loop and ends the process with a traceback
Propagate ==
    /\ ipc \in {"card", "scene"}
    /\ CallRaised
    /\ ipc' = "crashed"
    /\ pc' = "off"
    /\ UNCHANGED <<response, result, jsonParsed, consulted, saved, callVars>>
    /\ UNCHANGED <<current_mode, card_prompt, scene_prompt, prompt, entry>>
    /\ UNCHANGED guardVars

-----------------------------------------------------------------------------
(* Specifications *)

\* one call of prompt_tester.generate_image on any response, then save_image
Init ==
    /\ GenAt("idle") /\ GuardAt("off") /\ LoopAt("off") /\ NoCall
    /\ skip_generation = FALSE
    /\ current_mode = "both"

Next == Post \/ PostTimeout \/ HandleResponse \/ SaveImage

Spec == Init /\ [][Next]_vars

\* the same call on the responses that carry an encoded byte sequence
NextRoundTrip == PostEncoded \/ HandleResponse \/ SaveImage

SpecRoundTrip == Init /\ [][NextRoundTrip]_vars

\* one run of verify_dimensions.py, full or --quick
InitGuard ==
    /\ GenAt("off") /\ GuardAt("main") /\ LoopAt("off") /\ NoCall
    /\ skip_generation \in BOOLEAN
    /\ current_mode = "both"

NextGuard == LoadEnv \/ GenerateCard \/ GenerateScene \/ QuickScan \/ VerifyResult \/ Finish

SpecGuard == InitGuard /\ [][NextGuard]_vars

\* one call of prompt_tester.generate_image with any width and height
InitRequest ==
    /\ GenAt("called") /\ GuardAt("off") /\ LoopAt("off")
    /\ skip_generation = FALSE
    /\ current_mode = "both"
    /\ args \in CallArgs
    /\ payload = Nothing
    /\ posts = 0
    /\ in_flight = 0

NextRequest ==
    \/ BuildPayload \/ SendRequest \/ ReceiveResponse \/ RequestTimeout
    \/ HandleResponse \/ SaveImage

SpecRequest == InitRequest /\ [][NextRequest]_vars

\* one session of prompt_tester.py: main, then run_interactive
InitInteractive ==
    /\ GenAt("off") /\ GuardAt("off") /\ LoopAt("top") /\ NoCall
    /\ skip_generation = FALSE
    /\ \E card \in BOOLEAN, scene \in BOOLEAN : current_mode = MainMode(card, scene)

NextInteractive ==
    \/ ReadCardPrompt \/ ReadScenePrompt \/ ReadPrompt
    \/ BuildPayload \/ SendRequest \/ ReceiveResponse \/ RequestTimeout
    \/ HandleResponse \/ SaveImage
    \/ AfterCard \/ AfterScene \/ Propagate

SpecInteractive == InitInteractive /\ [][NextInteractive]_vars

-----------------------------------------------------------------------------
(* What the properties below read off a state.  These are written from the  *)
(* shape of the response alone and use none of the operators that model the *)
(* code.                                                                     *)

\* generate_image has returned (or raised) on a response of the endpoint
Returned == pc \in {"returned", "saved"} /\ response # Nothing

\* the call was answered 2xx with a body that parses as JSON
Parsed2xx ==
    /\ Returned
    /\ response.status_code \in 200..299
    /\ response.json # NotJson

\* the response has a first choice to read a message from
HasMessage ==
    /\ Parsed2xx
    /\ "choices" \in DOMAIN response.json => Len(response.json.choices) > 0

\* the message of the first choice, {} when the response names none
Msg ==
    IF "choices" \in DOMAIN response.json /\ "message" \in DOMAIN response.json.choices[1]
    THEN response.json.choices[1].message
    ELSE EmptyDict

HasImg == "images" \in DOMAIN Msg /\ Len(Msg.images) > 0

Img1 == Msg.images[1]

HasComma(s) == \E k \in 1..Len(s) : s[k] = ","

AfterFirstComma(s) ==
    LET k == CHOOSE j \in 1..Len(s) : s[j] = "," /\ \A h \in 1..(j - 1) : s[h] # ","
    IN  SubSeq(s, k + 1, Len(s))

HasUrl(img) == "image_url" \in DOMAIN img /\ "url" \in DOMAIN img.image_url

IsDataUrl(img) == HasUrl(img) /\ StartsWith(img.image_url.url, DataScheme)

WellFormedUri(img) == IsDataUrl(img) /\ HasComma(img.image_url.url)

\* the inline-data / bare-data reading of an object, as the spec words it
InlineOf(obj) ==
    [success |-> TRUE,
     image_base64 |-> IF "data" \in DOMAIN obj.inline_data THEN obj.inline_data.data ELSE <<>>,
     mime_type |-> IF "mime_type" \in DOMAIN obj.inline_data
                   THEN obj.inline_data.mime_type ELSE ImagePng]

BareOf(obj) ==
    [success |-> TRUE, image_base64 |-> obj.data,
     mime_type |-> IF "mime_type" \in DOMAIN obj THEN obj.mime_type ELSE ImagePng]

\* one of the three locations of images[0] holds an image
ImagesResolve ==
    HasImg /\ (WellFormedUri(Img1) \/ "inline_data" \in DOMAIN Img1 \/ "data" \in DOMAIN Img1)

ContentIsList == "content" \in DOMAIN Msg /\ "list" \in DOMAIN Msg.content

ContentItems == IF ContentIsList THEN Msg.content.list ELSE <<>>

ContentIsText ==
    "content" \in DOMAIN Msg /\ "str" \in DOMAIN Msg.content /\ Len(Msg.content.str) > 0

IsImageItem(item) == "type" \in DOMAIN item /\ item.type \in {"output_image", "image", "image_url"}

CarriesData(item) == "inline_data" \in DOMAIN item \/ "data" \in DOMAIN item

\* some element of the content list is an image element that carries data
ContentResolves == \E k \in 1..Len(ContentItems) :
    IsImageItem(ContentItems[k]) /\ CarriesData(ContentItems[k])

IsResult(r) == "success" \in DOMAIN r

IsSuccess(r) == IsResult(r) /\ r.success

IsFailure(r) == IsResult(r) /\ ~r.success

NoImageFailure == [success |-> FALSE, error |-> [msg |-> "No image in response"]]

\* does the consulted location hold an image?
Yields(loc) ==
    CASE loc.at = "images" /\ loc.key = "image_url" -> WellFormedUri(Msg.images[loc.idx])
      [] loc.at = "images" -> loc.key \in DOMAIN Msg.images[loc.idx]
      [] loc.at = "content" /\ loc.key # "type" -> loc.key \in DOMAIN ContentItems[loc.idx]
      [] OTHER -> FALSE

-----------------------------------------------------------------------------
(* C1 -- the extraction never raises *)

\* C1: for every parsed JSON response of a 2xx call, generate_image ends by
\* returning a success or a failure value, never by raising an exception.
C1_NeverRaises == Parsed2xx => IsResult(result)

-----------------------------------------------------------------------------
(* C2 -- the precedence of the locations *)

\* C2: the first matching location wins.  On images[0] a well-formed data URI
\* beats inline_data, which beats a bare data field; any of them beats the
\* content; an image element of a content list beats the failures; a location
\* is consulted only when every earlier one yielded nothing; and no element of
\* images but the first is inspected.
C2_Precedence ==
    HasMessage =>
        /\ (HasImg /\ WellFormedUri(Img1)) =>
               /\ IsSuccess(result)
               /\ result.image_base64 = AfterFirstComma(Img1.image_url.url)
        /\ (HasImg /\ ~WellFormedUri(Img1) /\ "inline_data" \in DOMAIN Img1) =>
               result = InlineOf(Img1)
        /\ (HasImg /\ ~WellFormedUri(Img1) /\ "inline_data" \notin DOMAIN Img1
              /\ "data" \in DOMAIN Img1) =>
               result = BareOf(Img1)
        /\ ImagesResolve => \A k \in 1..Len(consulted) : consulted[k].at = "images"
        /\ (~ImagesResolve /\ ContentResolves) => IsSuccess(result)
        /\ (~ImagesResolve /\ ~ContentResolves) => IsFailure(result)
        /\ \A k \in 1..Len(consulted) :
               /\ consulted[k].at = "images" => consulted[k].idx = 1
               /\ k < Len(consulted) => ~Yields(consulted[k])
        /\ (IsSuccess(result) /\ result.image_base64 = POther) => (HasImg /\ Img1 = RichImg)

\* C2 witness: images[0] offers all three locations, the content offers an
\* image too, and the data URI was taken.
C2_Witness ==
    /\ HasMessage /\ HasImg
    /\ WellFormedUri(Img1) /\ "inline_data" \in DOMAIN Img1 /\ "data" \in DOMAIN Img1
    /\ ContentResolves
    /\ IsSuccess(result) /\ result.image_base64 = PUrl

-----------------------------------------------------------------------------
(* C3 -- a failed HTTP status short-circuits *)

\* the HTTP failure of the response: its status and the first 200 characters
\* of its body, returned with no JSON parsed and no location consulted
HttpFailed ==
    /\ IsFailure(result)
    /\ result.error.msg = "HTTP"
    /\ result.error.status = response.status_code
    /\ result.error.text =
           SubSeq(response.text, 1,
                  IF Len(response.text) > 200 THEN 200 ELSE Len(response.text))
    /\ ~jsonParsed
    /\ consulted = <<>>

\* C3 as stated: whenever the status is not 2xx, generate_image returns the
\* HTTP failure (status, body snippet of at most 200 characters) before any
\* JSON parsing and without any step of the extraction.
C3_Non2xxFails ==
    (Returned /\ response.status_code \notin 200..299) => HttpFailed

\* C3 amended: whenever the status is in 400..599 (requests' response.ok is
\* false), generate_image returns the HTTP failure (status, body snippet of at
\* most 200 characters) before any JSON parsing and without any step of the
\* extraction; any other status is handled as a 2xx one (the body is parsed).
C3_ErrorStatusFails ==
    /\ (Returned /\ response.status_code \in 400..599) => HttpFailed
    /\ (Returned /\ response.status_code \notin 400..599) => jsonParsed

\* C3 witness: a 401 whose body is longer than the snippet was cut to it.
C3_Witness ==
    /\ Returned /\ response.status_code = 401 /\ Len(response.text) > 200
    /\ HttpFailed /\ Len(result.error.text) = 200

-----------------------------------------------------------------------------
(* C4 -- a data URI without a comma falls through *)

\* images[0].image_url.url starts with data: and holds no comma
NoCommaCase == HasMessage /\ HasImg /\ IsDataUrl(Img1) /\ ~HasComma(Img1.image_url.url)

\* C4: on a data: URL without a comma the extraction neither raises nor fails
\* there; it goes on to inline_data, to the bare data field and to the content,
\* and returns the no-image failure exactly when none of these matches.
C4_NoCommaFallsThrough ==
    NoCommaCase =>
        /\ IsResult(result)
        /\ Len(consulted) >= 2
        /\ consulted[1] = [at |-> "images", idx |-> 1, key |-> "image_url"]
        /\ consulted[2] = [at |-> "images", idx |-> 1, key |-> "inline_data"]
        /\ "inline_data" \in DOMAIN Img1 => result = InlineOf(Img1)
        /\ ("inline_data" \notin DOMAIN Img1 /\ "data" \in DOMAIN Img1) =>
               result = BareOf(Img1)
        /\ (~ImagesResolve /\ ContentResolves) => IsSuccess(result)
        /\ (~ImagesResolve /\ ContentIsText) =>
               (IsFailure(result) /\ result.error.msg = "Model returned text instead of image")
        /\ (result = NoImageFailure) <=>
               (~ImagesResolve /\ ~ContentResolves /\ ~ContentIsText)

\* C4 witness: the no-comma URL was passed over and the image came from the
\* content list.
C4_Witness ==
    /\ NoCommaCase /\ ~ImagesResolve /\ ContentResolves
    /\ IsSuccess(result) /\ result.image_base64 = PItemBare

-----------------------------------------------------------------------------
(* C5 -- the text of the model-returned-text failure *)

\* C5: when no image location resolves and content is a non-empty text, the
\* result is the model-returned-text failure whose text is the first 200
\* characters of content (all of it when shorter), never more than 200.
C5_TextTruncated ==
    (HasMessage /\ ~ImagesResolve /\ ContentIsText) =>
        /\ IsFailure(result)
        /\ result.error.msg = "Model returned text instead of image"
        /\ Len(result.error.text) <= 200
        /\ Len(result.error.text) = Len(Msg.content.str) \/ Len(result.error.text) = 200
        /\ \A k \in 1..Len(result.error.text) : result.error.text[k] = Msg.content.str[k]

\* C5 witness: a text of more than 200 characters was cut to 200.
C5_Witness ==
    /\ HasMessage /\ ~ImagesResolve /\ ContentIsText
    /\ Len(Msg.content.str) > 200
    /\ IsFailure(result) /\ Len(result.error.text) = 200

-----------------------------------------------------------------------------
(* C6 -- an absent images field and an empty images list *)

ImagesAbsent == "images" \notin DOMAIN Msg

ImagesEmpty == "images" \in DOMAIN Msg /\ Len(Msg.images) = 0

\* the message with `images` absent turned into `images: []` and back
TwinMsg ==
    IF ImagesAbsent THEN Msg @@ [images |-> <<>>]
    ELSE [k \in DOMAIN Msg \ {"images"} |-> Msg[k]]

TwinData == [choices |-> <<[message |-> TwinMsg]>>]

ContentVoid ==
    \/ "content" \notin DOMAIN Msg
    \/ ContentIsList /\ Len(Msg.content.list) = 0
    \/ "str" \in DOMAIN Msg.content /\ Len(Msg.content.str) = 0

\* C6: a message without `images` and the same message with `images: []` get
\* the same result and the same locations consulted, whatever the rest of the
\* message; and when content is absent, [] or "" too (the message itself may
\* be absent), the result is the no-image failure.
C6_AbsentLikeEmpty ==
    (HasMessage /\ (ImagesAbsent \/ ImagesEmpty)) =>
        /\ result = ExtractImage(TwinData).result
        /\ consulted = ExtractImage(TwinData).consulted
        /\ ContentVoid => result = NoImageFailure

\* C6 witness: `images: []` beside a content list that holds an image.
C6_Witness ==
    /\ HasMessage /\ ImagesEmpty /\ ContentResolves /\ IsSuccess(result)

-----------------------------------------------------------------------------
(* C7 -- the media type of a success *)

\* C7: every success carries a non-empty media type; where the response omits
\* it, the media type is image/png.
C7_MediaTypeNeverEmpty ==
    (Parsed2xx /\ IsSuccess(result)) => Len(result.mime_type) > 0

-----------------------------------------------------------------------------
(* C9 -- the scan of a content list *)

\* the content list is reached: no location of images[0] resolved
ScansContent == HasMessage /\ ~ImagesResolve /\ ContentIsList

IsCarryingImageItem(item) == IsImageItem(item) /\ CarriesData(item)

\* the index of the first image element of the content list, 0 when none
FirstImageItem ==
    IF \E k \in 1..Len(ContentItems) : IsImageItem(ContentItems[k])
    THEN CHOOSE k \in 1..Len(ContentItems) :
             IsImageItem(ContentItems[k]) /\ \A j \in 1..(k - 1) : ~IsImageItem(ContentItems[j])
    ELSE 0

\* the index of the first image element that carries data, 0 when none
FirstCarryingItem ==
    IF \E k \in 1..Len(ContentItems) : IsCarryingImageItem(ContentItems[k])
    THEN CHOOSE k \in 1..Len(ContentItems) :
             /\ IsCarryingImageItem(ContentItems[k])
             /\ \A j \in 1..(k - 1) : ~IsCarryingImageItem(ContentItems[j])
    ELSE 0

\* the inline-data / bare-data reading of a content element
ReadingOf(item) == IF "inline_data" \in DOMAIN item THEN InlineOf(item) ELSE BareOf(item)

\* no inline_data or data key of an element after the k-th was read
NothingReadAfter(k) ==
    \A j \in 1..Len(consulted) :
        (consulted[j].at = "content" /\ consulted[j].key # "type") => consulted[j].idx <= k

\* elements that are no image elements had only their type read
OthersSkipped ==
    \A j \in 1..Len(consulted) :
        (consulted[j].at = "content" /\ consulted[j].key # "type")
            => IsImageItem(ContentItems[consulted[j].idx])

\* C9 as stated: the image is taken from the first element whose type is one of
\* output_image, image, image_url; elements of other types before it are
\* skipped; the inline-data / bare-data extraction is applied to that element
\* and to no later element of the list.
C9_FirstTypedElement ==
    ScansContent =>
        LET k == FirstImageItem
        IN  /\ OthersSkipped
            /\ NothingReadAfter(k)
            /\ (k > 0 /\ CarriesData(ContentItems[k])) => result = ReadingOf(ContentItems[k])
            /\ (k = 0 \/ ~CarriesData(ContentItems[k])) => IsFailure(result)

\* C9 amended: the image is taken from the first element, in list order, whose
\* type is one of output_image, image, image_url and which has an inline_data
\* or a data key; elements of other types, and image elements with neither
\* key, are passed over; the extraction is applied to no element after the one
\* that yields; with no such element the result is a failure.
C9_FirstCarryingElement ==
    ScansContent =>
        LET k == FirstCarryingItem
        IN  /\ OthersSkipped
            /\ NothingReadAfter(IF k = 0 THEN Len(ContentItems) ELSE k)
            /\ k > 0 => result = ReadingOf(ContentItems[k])
            /\ k = 0 => IsFailure(result)

\* C9 witness: a text element and an image element without data come first and
\* the image is taken from the element after them.
C9_Witness ==
    /\ ScansContent /\ Len(ContentItems) >= 2
    /\ ~CarriesData(ContentItems[1])
    /\ FirstCarryingItem = 2
    /\ result = ReadingOf(ContentItems[2])

-----------------------------------------------------------------------------
(* C8 -- the round trip through a data URI *)

\* C8: for every non-empty byte sequence B and every standard image media type
\* M, the response whose images[0].image_url.url is data:M;base64,base64(B)
\* yields a success with media type M whose payload save_image decodes to B.
C8_RoundTrip ==
    (HasMessage /\ HasImg /\ HasUrl(Img1)) =>
        \A bytes \in ByteSeqs, mime \in MediaTypes :
            (Img1.image_url.url = DataScheme \o mime \o Base64Tag \o <<",">> \o Encoded[bytes]) =>
                /\ IsSuccess(result)
                /\ result.mime_type = mime
                /\ pc = "saved" => saved = [bytes |-> bytes]

\* C8 witness: two bytes that need the characters + and / and a padding sign
\* went through a data URI and were written back as they were.
C8_Witness ==
    /\ pc = "saved"
    /\ response = EncodedResponse(<<251, 255>>, ImageWebp)
    /\ result.image_base64 = <<"+", "/", "8", "=">>
    /\ saved = [bytes |-> <<251, 255>>]

-----------------------------------------------------------------------------
(* C10 -- the exit code of the guardrail test *)

Exited == vpc = "exited"

MeasuredAs(name, w, h) ==
    \E k \in 1..Len(measured) : measured[k] = [name |-> name, w |-> w, h |-> h]

AllDimensionsCorrect ==
    MeasuredAs("CARD", 1728, 2304) /\ MeasuredAs("SCENE", 2560, 1440)

\* C10: the guardrail test exits with code 0 exactly when the CARD output
\* measures 1728x2304 and the SCENE output measures 2560x1440; in every other
\* run, full or --quick, the exit code is not 0.
C10_ExitZeroIffAllCorrect ==
    Exited => (exit_code = 0 <=> AllDimensionsCorrect)

-----------------------------------------------------------------------------
(* C11 -- the exit code tells an error from a failed check *)

\* a generation that produced no image was recorded
GenerationFailed ==
    \E k \in 1..Len(results) : results[k].filepath = None

\* an image was measured with dimensions other than the expected ones, or as
\* a square
MeasuredWrong ==
    \E k \in 1..Len(measured) :
        \/ measured[k].w = measured[k].h
        \/ measured[k].name = "CARD" /\ <<measured[k].w, measured[k].h>> # <<1728, 2304>>
        \/ measured[k].name = "SCENE" /\ <<measured[k].w, measured[k].h>> # <<2560, 1440>>

\* C11: when the generation of CARD or SCENE failed (error status, or no
\* data-URI image in the response) the guardrail test exits with code 2, and
\* it exits with code 1 only when an image was produced and measured with
\* wrong dimensions or as a square.
C11_ErrorExitsTwo ==
    Exited => /\ GenerationFailed => exit_code = 2
              /\ exit_code = 1 => MeasuredWrong

-----------------------------------------------------------------------------
(* C12 -- the dimensions of a request *)

\* the greatest number that divides both w and h, for positive w and h
GreatestCommonDivisor(w, h) ==
    CHOOSE d \in 1..w :
        /\ w % d = 0 /\ h % d = 0
        /\ \A e \in (d + 1)..w : ~(w % e = 0 /\ h % e = 0)

\* the payload carries both dimensions, positive, and their reduced ratio
BothDimensions ==
    /\ "image_size" \in DOMAIN payload
    /\ DOMAIN payload.image_size = {"width", "height"}
    /\ payload.image_size.width > 0
    /\ payload.image_size.height > 0
    /\ "image_config" \in DOMAIN payload
    /\ "aspect_ratio" \in DOMAIN payload.image_config
    /\ LET w == payload.image_size.width
           h == payload.image_size.height
           d == GreatestCommonDivisor(w, h)
       IN  payload.image_config.aspect_ratio
               = Decimal(w \div d) \o <<":">> \o Decimal(h \div d)

NoDimensions ==
    "image_size" \notin DOMAIN payload /\ "image_config" \notin DOMAIN payload

-----------------------------------------------------------------------------
(* C13 -- one request per call, and what a timeout does *)

\* the current call of generate_image ended, by a return or by an exception
CallEnded == args # Nothing /\ pc \in {"returned", "saved", "off"}

TimedOut == result = [raised |-> "Timeout"]

\* C13: each call of generate_image sends exactly one HTTP request, at most
\* one request is in flight at any time, no request is sent a second time,
\* and a request that timed out gives its caller a failure that the
\* interactive loop reports, staying able to take the next prompt.
C13_OneRequestNoRetryLoopSurvives ==
    /\ in_flight <= 1
    /\ posts <= 1
    /\ CallEnded => posts = 1
    /\ TimedOut => ipc \in {"card", "scene", "top"}

-----------------------------------------------------------------------------
(* C14 -- command words at the prompts of the interactive loop *)

\* s, trimmed and in lower case
CommandOf(s) == Strip(Lower(s))

\* s is exactly one of the command words of the help text
IsCommandWord(s) == CommandOf(s) \in {Quit, ExitWord, Card, Scene, Both}

\* the loop is back at its head and no call was made for the last entry
BackAtTop == ipc = "top" /\ pc = "off"

\* C14: in every mode and at every prompt, an entry that is exactly a command
\* word (quit, exit, card, scene, both, whatever its case, once trimmed) is
\* never sent to the API as a prompt: quit and exit end the loop, card, scene
\* and both make that word the current mode, and no generation request is
\* issued for the entry; the current mode is always card, scene or both.
C14_CommandWordsAreNeverPrompts ==
    /\ current_mode \in {"card", "scene", "both"}
    /\ posts > 0 => ~IsCommandWord(args.prompt)
    /\ "text" \in DOMAIN entry =>
           /\ CommandOf(entry.text) \in {Quit, ExitWord} => ipc = "ended"
           /\ CommandOf(entry.text) = Card => current_mode = "card" /\ BackAtTop
           /\ CommandOf(entry.text) = Scene => current_mode = "scene" /\ BackAtTop
           /\ CommandOf(entry.text) = Both => current_mode = "both" /\ BackAtTop

=============================================================================
